---- MODULE Spec2Model ----
(***************************************************************************)
(* Model of codebase-visualizer.py: the CodebaseVisualizer class (tree and *)
(* list renderings of a directory tree) and the command line driver main.  *)
(*                                                                         *)
(* A string is a sequence of characters.  A character is written as the    *)
(* one-letter TLA+ string of itself; the four box-drawing characters that  *)
(* the tree view prints are written by their code point:                   *)
(*   "U251C" = BOX DRAWINGS LIGHT VERTICAL AND RIGHT   (tee)               *)
(*   "U2514" = BOX DRAWINGS LIGHT UP AND RIGHT         (elbow)             *)
(*   "U2500" = BOX DRAWINGS LIGHT HORIZONTAL           (dash)              *)
(*   "U2502" = BOX DRAWINGS LIGHT VERTICAL             (bar)               *)
(* and "\n" is the newline.  A path is the sequence of the names from the  *)
(* root directory (the empty sequence) down to the entry.                  *)
(***************************************************************************)
EXTENDS Integers, Sequences, FiniteSets

\* ------------------------------------------------------------------ bounds
\* Entries (files and directories) below the root.
MaxNodes == 4
\* Nesting levels below the root (a child of the root is at level 1).
MaxLevel == 3
\* Largest value given to --depth.
MaxDepthArg == 1
\* Directories whose listing is denied.
MaxDenied == 1

\* --------------------------------------------------------------- strings
NL == "\n"
Tee == <<"U251C", "U2500", "U2500", " ">>
Elbow == <<"U2514", "U2500", "U2500", " ">>
Spaces == <<" ", " ", " ", " ">>
Bar == <<"U2502", " ", " ", " ">>
DirMarker == <<"\\">>
PermissionDenied ==
  <<"[", "P", "e", "r", "m", "i", "s", "s", "i", "o", "n", " ",
    "D", "e", "n", "i", "e", "d", "]">>

\* Entry names of the modelled file systems: "A", "a" and "b" in the root
\* directory, "a" and "a.log" in the directories below it; an entry named
\* "a.log" is a regular file.
RootNames == { <<"A">>, <<"a">>, <<"b">> }
SubNames == { <<"a">>, <<"a", ".", "l", "o", "g">> }
NamesIn(directory) == IF directory = <<>> THEN RootNames ELSE SubNames
FileNames == { <<"a", ".", "l", "o", "g">> }

\* os.sep of the modelled platform.
Sep == "/"

\* basename(abspath(root_path)) of the modelled root directory.
RootName == <<"r">>

\* Code points of the characters that occur in names (Python compares str
\* values code point by code point).
Ord(c) ==
  CASE c = "." -> 46
    [] c = "/" -> 47
    [] c = "\\" -> 92
    [] c = "A" -> 65
    [] c = "a" -> 97
    [] c = "b" -> 98
    [] c = "g" -> 103
    [] c = "l" -> 108
    [] c = "o" -> 111

Tail2(s, n) == SubSeq(s, n + 1, Len(s))

\* s < t for Python str values.
RECURSIVE StrLess(_, _)
StrLess(s, t) ==
  IF t = <<>> THEN FALSE
  ELSE IF s = <<>> THEN TRUE
  ELSE IF Head(s) = Head(t) THEN StrLess(Tail(s), Tail(t))
  ELSE Ord(Head(s)) < Ord(Head(t))

\* Variant of sorted: descending order (sorted(..., reverse=True)).
RECURSIVE sorted_descending(_)
sorted_descending(S) ==
  IF S = {} THEN <<>>
  ELSE LET m == CHOOSE x \in S : \A y \in S \ {x} : StrLess(y, x)
       IN <<m>> \o sorted_descending(S \ {m})

\* sorted(S) for a set S of distinct str values.
RECURSIVE sorted(_)
sorted(S) ==
  IF S = {} THEN <<>>
  ELSE LET m == CHOOSE x \in S : \A y \in S \ {x} : StrLess(x, y)
       IN <<m>> \o sorted(S \ {m})

\* fnmatch.fnmatch(name, pat) on a POSIX platform (normcase is the identity)
\* for patterns made of literal characters, "*" and "?".
RECURSIVE fnmatch(_, _)
fnmatch(name, pat) ==
  IF pat = <<>> THEN name = <<>>
  ELSE IF Head(pat) = "*"
    THEN fnmatch(name, Tail(pat)) \/ (name # <<>> /\ fnmatch(Tail(name), pat))
  ELSE IF Head(pat) = "?"
    THEN name # <<>> /\ fnmatch(Tail(name), Tail(pat))
  ELSE name # <<>> /\ Head(name) = Head(pat) /\ fnmatch(Tail(name), Tail(pat))

\* "\n".join(lines)
RECURSIVE join(_)
join(lines) ==
  IF lines = <<>> THEN <<>>
  ELSE IF Len(lines) = 1 THEN lines[1]
  ELSE lines[1] \o <<NL>> \o join(Tail(lines))

\* ---------------------------------------------------- constructor defaults
DEFAULT_IGNORE ==
  << <<"*", ".", "p", "y", "c">>, <<"*", ".", "p", "y", "o">>,
     <<"*", ".", "p", "y", "d">>,
     <<".", "g", "i", "t">>, <<".", "s", "v", "n">>, <<".", "h", "g">>,
     <<"_", "_", "p", "y", "c", "a", "c", "h", "e", "_", "_">>,
     <<".", "p", "y", "t", "e", "s", "t", "_", "c", "a", "c", "h", "e">>,
     <<"n", "o", "d", "e", "_", "m", "o", "d", "u", "l", "e", "s">>,
     <<"v", "e", "n", "v">>, <<".", "v", "e", "n", "v">>,
     <<".", "i", "d", "e", "a">>, <<".", "v", "s", "c", "o", "d", "e">>,
     <<".", "e", "n", "v">>,
     <<"*", ".", "i", "m", "l">>, <<"b", "u", "i", "l", "d">>,
     <<".", "g", "r", "a", "d", "l", "e">>,
     <<"*", ".", "l", "o", "g">>, <<"*", ".", "b", "a", "k">> >>

\* ------------------------------------------------------------------ state
VARIABLES
  exists,          \* the root directory exists
  dirs,            \* paths of the directories below the root
  files,           \* paths of the files below the root
  denied,          \* paths of the directories whose listing is denied
  pc,              \* position of the run
  mode,            \* "main": run of main(); "call": visualize() called directly
  args,            \* parsed arguments: [format, depth, ignore]
  self,            \* the CodebaseVisualizer: [ignore_patterns, max_depth]
  visualization,   \* value returned by visualize()
  error,           \* exception raised and not yet handled ("" when none)
  listed,          \* directories listed so far (os.listdir / os.walk)
  outfile,         \* content of the output file, <<>> while not written
  written,         \* the output file has been opened and written
  stdout,          \* what has been printed on standard output
  stderr,          \* what has been printed on the error stream
  status           \* exit status of the process, -1 while running

vars == <<exists, dirs, files, denied, pc, mode, args, self, visualization,
          error, listed, outfile, written, stdout, stderr, status>>

fsvars == <<exists, dirs, files, denied>>
runvars == <<mode, args, self, visualization, error, listed, outfile, written,
             stdout, stderr, status>>

\* The file system as one value.
FS == [exists |-> exists, dirs |-> dirs, files |-> files, denied |-> denied]

\* ------------------------------------------------------------ file system
Parent(p) == SubSeq(p, 1, Len(p) - 1)
Basename(p) == p[Len(p)]

\* os.listdir(directory): the names of the entries, or the error raised.
os_listdir(fs, directory) ==
  IF ~fs.exists THEN [err |-> "FileNotFoundError", names |-> {}]
  ELSE IF directory \in fs.denied THEN [err |-> "PermissionError", names |-> {}]
  ELSE [err |-> "",
        names |-> {Basename(p) : p \in {q \in fs.dirs \cup fs.files :
                                         Len(q) > 0 /\ Parent(q) = directory}}]

\* os.path.isdir(full_path)
os_path_isdir(fs, full_path) == fs.exists /\ (full_path = <<>> \/ full_path \in fs.dirs)

\* --------------------------------------------------- CodebaseVisualizer
\* __init__: ignore_patterns or the default list; max_depth is the empty set
\* for None and {n} for the integer n.
__init__(ignore_patterns, max_depth) ==
  [ignore_patterns |-> IF ignore_patterns = <<>> THEN DEFAULT_IGNORE
                       ELSE ignore_patterns,
   max_depth |-> max_depth]

\* Variant of _should_ignore: only the first pattern is tried.
_should_ignore_first(slf, name) == fnmatch(name, slf.ignore_patterns[1])

_should_ignore(slf, name) ==
  \E i \in 1..Len(slf.ignore_patterns) : fnmatch(name, slf.ignore_patterns[i])

\* The result of a call: the lines returned (or the exception raised) and the
\* directories listed on the way.
Returned(lines, ls) == [raised |-> "", lines |-> lines, listed |-> ls]
Raised(e, ls) == [raised |-> e, lines |-> <<>>, listed |-> ls]

\* Variant of depth_exceeded: ">=" in place of ">".
depth_exceeded_early(slf, depth) == \E m \in slf.max_depth : depth >= m

\* "self.max_depth is not None and depth > self.max_depth"
depth_exceeded(slf, depth) == \E m \in slf.max_depth : depth > m

\* Variant of permission_denied: the handler appends nothing.
permission_denied_silent(prefix) == <<>>

\* The lines appended by the handler of PermissionError.
permission_denied(prefix) == << prefix \o Elbow \o PermissionDenied >>

RECURSIVE walk_directory(_, _, _, _, _, _), walk_items(_, _, _, _, _, _, _, _)

\* The for loop of walk_directory from index i on.
walk_items(fs, slf, directory, items, i, prefix, is_last_entry, depth) ==
  IF i > Len(items) THEN Returned(<<>>, {})
  ELSE
    LET item == items[i]
        is_last == (i = Len(items))
        full_path == Append(directory, item)
        current_prefix == prefix \o (IF is_last_entry /\ is_last THEN Elbow ELSE Tee)
        next_prefix == prefix \o (IF is_last_entry /\ is_last THEN Spaces ELSE Bar)
        line == current_prefix \o item \o
                (IF os_path_isdir(fs, full_path) THEN DirMarker ELSE <<>>)
        sub == IF os_path_isdir(fs, full_path)
               THEN walk_directory(fs, slf, full_path, next_prefix, is_last, depth + 1)
               ELSE Returned(<<>>, {})
    IN IF sub.raised # "" THEN sub
       ELSE LET rest == walk_items(fs, slf, directory, items, i + 1, prefix,
                                   is_last_entry, depth)
            IN IF rest.raised # "" THEN Raised(rest.raised, sub.listed \cup rest.listed)
               ELSE Returned(<<line>> \o sub.lines \o rest.lines,
                             sub.listed \cup rest.listed)

walk_directory(fs, slf, directory, prefix, is_last_entry, depth) ==
  IF depth_exceeded(slf, depth) THEN Returned(<<>>, {})
  ELSE
    LET ls == os_listdir(fs, directory)
    IN IF ls.err = "PermissionError"
         THEN Returned(permission_denied(prefix), {directory})
       ELSE IF ls.err # "" THEN Raised(ls.err, {directory})
       ELSE LET items == sorted({n \in ls.names : ~_should_ignore(slf, n)})
                r == walk_items(fs, slf, directory, items, 1, prefix,
                                is_last_entry, depth)
            IN [r EXCEPT !.listed = @ \cup {directory}]

_generate_tree_view(fs, slf) ==
  LET w == walk_directory(fs, slf, <<>>, <<>>, TRUE, 0)
  IN IF w.raised # "" THEN [raised |-> w.raised, text |-> <<>>, listed |-> w.listed]
     ELSE [raised |-> "", text |-> join(<< RootName \o DirMarker >> \o w.lines),
           listed |-> w.listed]

\* os.walk(root_path) yields nothing when the top directory cannot be
\* scanned (onerror is None), and the view is the join of no lines.
\* Otherwise its first triple is the root: the loop body filters dirs, then
\* evaluates any(self._should_ignore(...)), and any() of a bool raises
\* TypeError, so the rest of the body never runs.
_generate_list_view(fs, slf) ==
  IF os_listdir(fs, <<>>).err # ""
    THEN [raised |-> "", text |-> join(<<>>), listed |-> {<<>>}]
  ELSE [raised |-> "TypeError", text |-> <<>>, listed |-> {<<>>}]

\* Variant of visualize: every format other than 'list' gives the tree view.
visualize_tree_by_default(fs, slf, output_format) ==
  IF output_format = "list" THEN _generate_list_view(fs, slf)
  ELSE _generate_tree_view(fs, slf)

visualize(fs, slf, output_format) ==
  IF output_format = "tree" THEN _generate_tree_view(fs, slf)
  ELSE IF output_format = "list" THEN _generate_list_view(fs, slf)
  ELSE [raised |-> "ValueError", text |-> <<>>, listed |-> {}]

\* ----------------------------------------------------------------- inputs
Formats == {"tree", "list", "json"}
Depths == {{}} \cup {{n} : n \in 0..MaxDepthArg}
\* Values of --ignore: absent, ["a"] and ["b", "*.l?g"].
Ignores == { <<>>,
             << <<"a">> >>,
             << <<"b">>, <<"*", ".", "l", "?", "g">> >> }
\* The arguments of a direct call.  The outcome of the list view depends on
\* neither the depth nor the patterns, and an invalid format reads nothing.
Inputs ==
  {[format |-> "tree", depth |-> d, ignore |-> ig] : d \in Depths, ig \in Ignores}
  \cup {[format |-> f, depth |-> {}, ignore |-> <<>>] : f \in Formats \ {"tree"}}

\* The command lines of main: each format without -d and -i, and the tree
\* format with "-d 0 -i a".
CommandLines ==
  {[format |-> f, depth |-> {}, ignore |-> <<>>] : f \in Formats}
  \cup {[format |-> "tree", depth |-> {0}, ignore |-> << <<"a">> >>]}

NoArgs == [format |-> "", depth |-> {}, ignore |-> <<>>]
NoSelf == [ignore_patterns |-> <<>>, max_depth |-> {}]

\* ------------------------------------------------------------------- Init
Init ==
  /\ exists = TRUE
  /\ dirs = {}
  /\ files = {}
  /\ denied = {}
  /\ pc = "setup"
  /\ mode = ""
  /\ args = NoArgs
  /\ self = NoSelf
  /\ visualization = <<>>
  /\ error = ""
  /\ listed = {}
  /\ outfile = <<>>
  /\ written = FALSE
  /\ stdout = <<>>
  /\ stderr = <<>>
  /\ status = -1

\* ------------------------------------------- the file system before the run
NewPaths ==
  UNION {{Append(d, n) : n \in NamesIn(d)} : d \in dirs \cup {<<>>}} \ (dirs \cup files)

Mkdir ==
  /\ pc = "setup" /\ exists
  /\ Cardinality(dirs \cup files) < MaxNodes
  /\ \E p \in NewPaths :
       /\ Len(p) <= MaxLevel
       /\ Basename(p) \notin FileNames
       /\ dirs' = dirs \cup {p}
  /\ UNCHANGED <<exists, files, denied, pc>>
  /\ UNCHANGED runvars

Touch ==
  /\ pc = "setup" /\ exists
  /\ Cardinality(dirs \cup files) < MaxNodes
  /\ \E p \in NewPaths :
       /\ Len(p) <= MaxLevel
       /\ files' = files \cup {p}
  /\ UNCHANGED <<exists, dirs, denied, pc>>
  /\ UNCHANGED runvars

Chmod ==
  /\ pc = "setup" /\ exists
  /\ Cardinality(denied) < MaxDenied
  /\ \E d \in (dirs \cup {<<>>}) \ denied : denied' = denied \cup {d}
  /\ UNCHANGED <<exists, dirs, files, pc>>
  /\ UNCHANGED runvars

Rmdir ==
  /\ pc = "setup" /\ exists
  /\ dirs = {} /\ files = {} /\ denied = {}
  /\ exists' = FALSE
  /\ UNCHANGED <<dirs, files, denied, pc>>
  /\ UNCHANGED runvars

\* ------------------------------------------------------------------- main
\* The process is started with some command line.
Start ==
  /\ pc = "setup"
  /\ \E a \in CommandLines : args' = a
  /\ mode' = "main"
  /\ pc' = "parse_args"
  /\ UNCHANGED fsvars
  /\ UNCHANGED <<self, visualization, error, listed, outfile, written,
                 stdout, stderr, status>>

\* parser.parse_args(): a --format outside choices makes argparse print its
\* usage message on the error stream and exit with status 2 (SystemExit,
\* raised outside the try block).
ParseArgs ==
  /\ pc = "parse_args"
  /\ IF args.format \in {"tree", "list"}
       THEN /\ pc' = "construct"
            /\ UNCHANGED <<stderr, status>>
       ELSE /\ pc' = "exited"
            /\ stderr' = <<"usage", "error: argument -f/--format: invalid choice">>
            /\ status' = 2
  /\ UNCHANGED fsvars
  /\ UNCHANGED <<mode, args, self, visualization, error, listed, outfile,
                 written, stdout>>

\* visualizer = CodebaseVisualizer(args.path, args.ignore, args.depth)
Construct ==
  /\ pc = "construct"
  /\ self' = __init__(args.ignore, args.depth)
  /\ pc' = "visualize"
  /\ UNCHANGED fsvars
  /\ UNCHANGED <<mode, args, visualization, error, listed, outfile, written,
                 stdout, stderr, status>>

\* A caller other than main constructs a visualizer and calls visualize().
Call ==
  /\ pc = "setup"
  /\ \E a \in Inputs :
       /\ args' = a
       /\ self' = __init__(a.ignore, a.depth)
  /\ mode' = "call"
  /\ pc' = "visualize"
  /\ UNCHANGED fsvars
  /\ UNCHANGED <<visualization, error, listed, outfile, written,
                 stdout, stderr, status>>

\* visualization = visualizer.visualize(args.format)
Visualize ==
  /\ pc = "visualize"
  /\ LET r == visualize(FS, self, args.format)
     IN /\ listed' = r.listed
        /\ IF r.raised = ""
             THEN /\ visualization' = r.text
                  /\ error' = ""
                  /\ pc' = IF mode = "main" THEN "write" ELSE "returned"
             ELSE /\ visualization' = <<>>
                  /\ error' = r.raised
                  /\ pc' = IF mode = "main" THEN "except" ELSE "raised"
  /\ UNCHANGED fsvars
  /\ UNCHANGED <<mode, args, self, outfile, written, stdout, stderr, status>>

\* with open(output_path, 'w', encoding='utf-8') as f: f.write(visualization)
\* The open fails when the Desktop directory is missing or not writable.
WriteFile ==
  /\ pc = "write"
  /\ \E ok \in BOOLEAN :
       IF ok THEN /\ outfile' = visualization
                  /\ written' = TRUE
                  /\ pc' = "print"
                  /\ error' = error
             ELSE /\ error' = "OSError"
                  /\ pc' = "except"
                  /\ UNCHANGED <<outfile, written>>
  /\ UNCHANGED fsvars
  /\ UNCHANGED <<mode, args, self, visualization, listed, stdout, stderr, status>>

\* The three print calls: the confirmation, the header and the rendering.
\* A print fails when the stream is closed or cannot encode the text; the
\* n prints before it have been made.
PrintResult ==
  /\ pc = "print"
  /\ \E n \in 0..3 :
       /\ stdout' = SubSeq(<<"saved", "header", visualization>>, 1, n)
       /\ IF n = 3 THEN /\ pc' = "end"
                         /\ error' = error
                    ELSE /\ error' = "OSError"
                         /\ pc' = "except"
  /\ UNCHANGED fsvars
  /\ UNCHANGED <<mode, args, self, visualization, listed, outfile, written,
                 stderr, status>>

\* except Exception as e: print(f"Error: {e}", file=sys.stderr); sys.exit(1)
Except ==
  /\ pc = "except"
  /\ stderr' = <<"Error: ", error>>
  /\ status' = 1
  /\ pc' = "exited"
  /\ UNCHANGED fsvars
  /\ UNCHANGED <<mode, args, self, visualization, error, listed, outfile,
                 written, stdout>>

\* main() returns and the interpreter exits with status 0.
Exit ==
  /\ pc = "end"
  /\ status' = 0
  /\ pc' = "exited"
  /\ UNCHANGED fsvars
  /\ UNCHANGED <<mode, args, self, visualization, error, listed, outfile,
                 written, stdout, stderr>>

Next ==
  \/ Mkdir \/ Touch \/ Chmod \/ Rmdir
  \/ Start \/ ParseArgs \/ Construct \/ Call \/ Visualize
  \/ WriteFile \/ PrintResult \/ Except \/ Exit

Spec == Init /\ [][Next]_vars

\* =================================================================
\* Reading a rendering back: lines, connectors and entries.
\* =================================================================

\* text.split("\n"): the piece from index from on, scanning at index i.
RECURSIVE SplitAt(_, _, _)
SplitAt(text, from, i) ==
  IF i > Len(text) THEN <<SubSeq(text, from, Len(text))>>
  ELSE IF text[i] = NL
    THEN <<SubSeq(text, from, i - 1)>> \o SplitAt(text, i + 1, i + 1)
  ELSE SplitAt(text, from, i + 1)

Split(text) == SplitAt(text, 1, 1)

Groups == {Tee, Elbow, Spaces, Bar}

\* Number of leading four-character groups of a tree line, counting from k.
RECURSIVE LevelFrom(_, _)
LevelFrom(l, k) ==
  IF Len(l) >= 4 * k + 4 /\ SubSeq(l, 4 * k + 1, 4 * k + 4) \in Groups
    THEN LevelFrom(l, k + 1)
  ELSE k

LineLevel(l) == LevelFrom(l, 0)

\* The groups before the connector, the connector, and what follows it.
LinePrefix(l) == SubSeq(l, 1, 4 * (LineLevel(l) - 1))
LineConnector(l) == SubSeq(l, 4 * LineLevel(l) - 3, 4 * LineLevel(l))
LineLabel(l) == Tail2(l, 4 * LineLevel(l))

IsPlaceholder(l) == LineLabel(l) = PermissionDenied
LabelIsDir(l) == l # <<>> /\ l[Len(l)] = "\\" /\ Len(l) > 4 * LineLevel(l)
LabelName(l) ==
  IF LabelIsDir(l) THEN SubSeq(l, 4 * LineLevel(l) + 1, Len(l) - 1)
  ELSE LineLabel(l)

\* The path of the entry that each line of T names: its name under the path
\* of the nearest earlier entry line one level up.
NoPath == << <<"!">> >>
RECURSIVE PathsUpTo(_, _)
PathsUpTo(T, n) ==
  IF n = 0 THEN <<>>
  ELSE LET before == PathsUpTo(T, n - 1)
           lv == LineLevel(T[n])
           path == IF lv = 0 THEN NoPath
                   ELSE IF lv = 1 THEN <<LabelName(T[n])>>
                   ELSE IF \E j \in 1..(n - 1) : Len(before[j]) = lv - 1
                     THEN LET up == CHOOSE j \in 1..(n - 1) :
                                      /\ Len(before[j]) = lv - 1
                                      /\ \A k \in (j + 1)..(n - 1) : Len(before[k]) # lv - 1
                          IN Append(before[up], LabelName(T[n]))
                   ELSE NoPath
       IN Append(before, IF IsPlaceholder(T[n]) THEN <<>> ELSE path)

\* The path named by each line (the empty path for a placeholder line).
Paths(T) == PathsUpTo(T, Len(T))

\* A tree rendering has just been returned by visualize().
TreeRendered == args.format = "tree" /\ pc \in {"returned", "write"}

\* The lines of the rendering, and those below the root line.
OutLines == Split(visualization)
TreeLines == Tail(OutLines)
EntryIndexes(T) == {i \in 1..Len(T) : ~IsPlaceholder(T[i])}

\* =================================================================
\* What the claims say about the file system.
\* =================================================================
Entries == dirs \cup files

\* The name matches a pattern of the active rule set.
Matches(name) ==
  \E i \in 1..Len(self.ignore_patterns) : fnmatch(name, self.ignore_patterns[i])

\* No name on the path matches.
NotIgnored(p) == \A i \in 1..Len(p) : ~Matches(p[i])

ProperPrefixes(p) == {SubSeq(p, 1, k) : k \in 0..(Len(p) - 1)}

\* The entry is to be listed: not ignored, below readable and not ignored
\* directories, and at most max_depth + 1 levels below the root.
Shown(p) ==
  /\ p \in Entries
  /\ NotIgnored(p)
  /\ \A q \in ProperPrefixes(p) : q \notin denied
  /\ \A m \in self.max_depth : Len(p) <= m + 1

\* The entries to be listed, and among a set S of entries the children of
\* the directory d.
ShownSet == {p \in Entries : Shown(p)}
ChildrenIn(S, d) == {p \in S : Parent(p) = d}

\* p comes last in name order among its siblings in S.
IsLastSibling(S, p) ==
  \A q \in ChildrenIn(S, Parent(p)) \ {p} : StrLess(Basename(q), Basename(p))

\* C1: every listed directory's last non-ignored child has the connector
\* elbow and its other children the connector tee, at every nesting level and
\* whatever the position of the directory among its siblings.
C1_LastChildElbow ==
  TreeRendered =>
    LET T == TreeLines
        P == Paths(T)
        S == ShownSet
    IN \A i \in EntryIndexes(T) :
         LineConnector(T[i]) = IF IsLastSibling(S, P[i]) THEN Elbow ELSE Tee

\* The prefix the claim C2 describes: one group per ancestor below the root,
\* outermost first.
RECURSIVE AncestorPrefix(_, _, _)
AncestorPrefix(S, p, k) ==
  IF k >= Len(p) THEN <<>>
  ELSE (IF IsLastSibling(S, SubSeq(p, 1, k)) THEN Spaces ELSE Bar)
       \o AncestorPrefix(S, p, k + 1)

\* C2: the prefix before the connector of an entry's line is, for each of its
\* ancestors below the root taken outermost first, four spaces when that
\* ancestor was the last sibling and a vertical bar group otherwise.
C2_PrefixFromAncestors ==
  TreeRendered =>
    LET T == TreeLines
        P == Paths(T)
        S == ShownSet
    IN \A i \in EntryIndexes(T) : LinePrefix(T[i]) = AncestorPrefix(S, P[i], 1)

\* The relative path of an entry as the list view is to print it.
RECURSIVE RelPath(_)
RelPath(p) ==
  IF Len(p) = 1 THEN p[1] ELSE p[1] \o <<Sep>> \o RelPath(Tail(p))
RelLine(p) == RelPath(p) \o (IF p \in dirs THEN DirMarker ELSE <<>>)

\* visualize('list') has just returned or raised.
ListCalled ==
  /\ args.format = "list"
  /\ \/ pc \in {"returned", "raised", "write"}
     \/ pc = "except" /\ error = "TypeError"

\* C3: for an existing tree with no ignored entries and no depth limit,
\* visualize('list') returns a rendering whose lines are, sorted, exactly the
\* relative paths of all files and directories below the root.
C3_ListIsAllPaths ==
  (/\ ListCalled /\ exists /\ denied = {}
   /\ self.max_depth = {}
   /\ \A p \in Entries : NotIgnored(p))
  => /\ error = ""
     /\ LET L == IF visualization = <<>> THEN <<>> ELSE OutLines
        IN /\ {L[i] : i \in 1..Len(L)} = {RelLine(p) : p \in Entries}
           /\ Len(L) = Cardinality(Entries)
           /\ \A i \in 1..(Len(L) - 1) : StrLess(L[i], L[i + 1])

\* visualize() has returned a rendering (and main may have gone on with it).
RenderingReturned == pc \in {"returned", "write", "print", "end"}

\* C4: when the root does not exist or cannot be read, visualize fails in
\* both formats: no rendering is returned and no output file is written.
C4_BadRootFails ==
  (~exists \/ <<>> \in denied) => (~RenderingReturned /\ ~written)

\* The file system in which every unreadable directory is readable and empty.
Under(d) == {p \in Entries : Len(p) > Len(d) /\ SubSeq(p, 1, Len(d)) = d}
Emptied ==
  [exists |-> exists,
   dirs |-> dirs \ UNION {Under(d) : d \in denied},
   files |-> files \ UNION {Under(d) : d \in denied},
   denied |-> {}]

KeepEntryLines(T) ==
  LET keep(l) == ~IsPlaceholder(l) IN SelectSeq(T, keep)

\* The listing of the directory at path p is attempted by the walk.
ListingAttempted(p) == Shown(p) /\ p \in dirs /\ \A m \in self.max_depth : Len(p) <= m

\* C5: a nested directory whose listing is denied contributes, right after
\* its own line, exactly one placeholder line and no descendant lines, and
\* all the other lines are those of the same tree with that directory
\* readable and empty.
C5_DeniedDirectory ==
  (TreeRendered /\ <<>> \notin denied) =>
    LET T == TreeLines
        P == Paths(T)
    IN /\ \A i \in 1..Len(T) :
            IsPlaceholder(T[i]) <=>
              /\ i > 1
              /\ ~IsPlaceholder(T[i - 1])
              /\ P[i - 1] \in denied
              /\ ListingAttempted(P[i - 1])
       /\ \A d \in denied : ListingAttempted(d) =>
            \E i \in 1..(Len(T) - 1) :
              /\ P[i] = d /\ ~IsPlaceholder(T[i])
              /\ IsPlaceholder(T[i + 1])
       /\ KeepEntryLines(T) = Tail(Split(_generate_tree_view(Emptied, self).text))

\* A denied directory with entries below it is listed before a sibling
\* directory whose child is listed.
C5_Witness ==
  /\ TreeRendered /\ <<>> \notin denied
  /\ \E d \in denied, s \in dirs :
       /\ ListingAttempted(d) /\ Under(d) # {}
       /\ Parent(s) = Parent(d) /\ StrLess(Basename(d), Basename(s))
       /\ ChildrenIn(ShownSet, s) # {}

\* C6: with max_depth = N the tree rendering has a line for an entry exactly
\* when the entry is not ignored, lies at most N + 1 levels below the root
\* and has no ignored or unreadable ancestor.
C6_DepthLimit ==
  (TreeRendered /\ self.max_depth # {}) =>
    LET T == TreeLines
        P == Paths(T)
    IN /\ {P[i] : i \in EntryIndexes(T)}
            = {p \in Entries :
                 /\ NotIgnored(p)
                 /\ \A q \in ProperPrefixes(p) : q \notin denied
                 /\ \A N \in self.max_depth : Len(p) <= N + 1}
       /\ \A i \in EntryIndexes(T), N \in self.max_depth : LineLevel(T[i]) <= N + 1

\* With max_depth = 1 an entry two levels down is listed and an entry three
\* levels down, not ignored and below readable directories, is not.
C6_Witness ==
  /\ TreeRendered /\ self.max_depth = {1}
  /\ \E p \in Entries :
       /\ Len(p) = 3 /\ NotIgnored(p)
       /\ \A q \in ProperPrefixes(p) : q \notin denied
  /\ \E i \in EntryIndexes(TreeLines) : LineLevel(TreeLines[i]) = 2

\* C7: no line below the root line names an entry whose name matches a
\* pattern of the active rule set, nor a descendant of such a directory, and
\* every other entry within the depth limit and below readable directories
\* has a line.
C7_IgnoredAbsent ==
  TreeRendered =>
    LET T == TreeLines
        P == Paths(T)
    IN /\ \A i \in EntryIndexes(T) :
            /\ ~Matches(LabelName(T[i]))
            /\ P[i] \in Entries
            /\ NotIgnored(P[i])
       /\ \A p \in ShownSet : \E i \in EntryIndexes(T) : P[i] = p

\* A directory two levels down is ignored, an entry below it has a name that
\* matches no pattern, and a sibling of the directory is listed.
C7_Witness ==
  /\ TreeRendered
  /\ \E d \in dirs, p \in Entries :
       /\ Len(d) = 2 /\ Matches(Basename(d)) /\ Shown(Parent(d))
       /\ Parent(p) = d /\ ~Matches(Basename(p))
       /\ ChildrenIn(ShownSet, Parent(d)) # {}

\* C8: with a format other than 'tree' and 'list' no directory is ever
\* listed and no output file is written, the run fails, and whenever the
\* output file has been written visualize() had returned the rendering that
\* the file holds.
C8_NoIOBeforeFailure ==
  /\ (mode # "" /\ args.format \notin {"tree", "list"}) =>
       /\ listed = {} /\ ~written /\ outfile = <<>>
       /\ pc \notin {"returned", "write", "print", "end"}
       /\ pc = "raised" => error = "ValueError"
       /\ pc = "exited" => status \notin {-1, 0}
  /\ written =>
       /\ mode = "main" /\ pc \in {"print", "end", "except", "exited"}
       /\ outfile = visualization
       /\ pc = "print" =>
            LET r == visualize(FS, self, args.format)
            IN r.raised = "" /\ r.text = visualization /\ listed = r.listed

\* visualize() was called with the format "json" on a tree with entries and
\* has raised.
C8_Witness ==
  /\ args.format = "json" /\ pc = "raised" /\ error = "ValueError"
  /\ dirs # {} /\ files # {}

\* C9: every run of main ends with status 0 or 1: 0 exactly when the
\* rendering was produced, written and printed, and 1, after "Error: ..." on
\* the error stream, on any error in parsing, traversal or writing.
C9_ExitStatus ==
  (mode = "main" /\ pc = "exited") =>
    /\ status \in {0, 1}
    /\ status = 0 <=> (written /\ Len(stdout) = 3)
    /\ status = 1 => (Len(stderr) = 2 /\ stderr[1] = "Error: ")

\* The entries of S that are the siblings todo and their descendants, in
\* depth-first pre-order, siblings in ascending order of name.
RECURSIVE Preorder(_, _)
Preorder(S, todo) ==
  IF todo = {} THEN <<>>
  ELSE LET c == CHOOSE x \in todo :
                  \A y \in todo \ {x} : StrLess(Basename(x), Basename(y))
       IN <<c>> \o Preorder(S, ChildrenIn(S, c)) \o Preorder(S, todo \ {c})

\* C10: the lines below the root line are the depth-first pre-order
\* enumeration of the listed entries, children in ascending byte-wise order
\* of name, every entry once, directories with the trailing marker.
C10_PreorderSorted ==
  TreeRendered =>
    LET E == KeepEntryLines(TreeLines)
        S == ShownSet
        P == Preorder(S, ChildrenIn(S, <<>>))
        D == Paths(E)
    IN /\ Len(E) = Len(P)
       /\ \A i \in 1..Len(E) :
            /\ LineLevel(E[i]) = Len(P[i])
            /\ LabelName(E[i]) = Basename(P[i])
            /\ LabelIsDir(E[i]) <=> P[i] \in dirs
            /\ D[i] = P[i]

\* The root holds the files A and a and the directory b, which holds a file.
C10_Witness ==
  /\ TreeRendered
  /\ files = { << <<"A">> >>, << <<"a">> >>, << <<"b">>, <<"a">> >> }
  /\ dirs = { << <<"b">> >> }
  /\ denied = {}
  /\ OutLines = << RootName \o DirMarker,
                   Tee \o <<"A">>,
                   Tee \o <<"a">>,
                   Elbow \o <<"b">> \o DirMarker,
                   Spaces \o Elbow \o <<"a">> >>

====
